---------------------------- MODULE Spec2Model ----------------------------
(***************************************************************************)
(* A model of extract_stimulus_heading_for_camera.py: the calibration      *)
(* loader and circular interpolator (create_interpolation_function), the   *)
(* per-archive processor (process_braidz_file) and the batch driver (main).*)
(*                                                                         *)
(* Numbers.  Floats are modelled by exact integer/rational arithmetic.     *)
(* Angles are counted in units of pi/16 (Pi == 16).  np.cos and np.sin are *)
(* a fixed-point table (scale 1000) over the 16 lattice directions, the    *)
(* even multiples of the unit; np.arctan2 returns the lattice direction of *)
(* a vector that lies exactly on one, and the odd unit between the two     *)
(* neighbouring lattice directions otherwise.  A float that is NaN is      *)
(* [k |-> "nan"], an infinity [k |-> "inf"].  Signed zeros and rounding    *)
(* are not modelled: cos and sin are exactly 0 where a float is within     *)
(* 2e-16 of it.                                                            *)
(***************************************************************************)
EXTENDS Integers, Sequences, FiniteSets, TLC

VARIABLES
    args,              \* argparse result: screen2heading source, braidz_path, recursive, output_path
    get_heading_func,  \* the closure main holds: [built, x, cx, cy] (f_x and f_y of the closure)
    braidz_files,      \* the list main iterates over
    pc,                \* position in main / process_braidz_file
    i,                 \* index of the archive of the batch loop (1-based)
    stim,              \* the DataFrame read from the current archive
    idx,               \* index of the next row of stim.iterrows() (1-based)
    outdir,            \* the output directory: file name -> sequence of lines
    console,           \* what was printed
    error,             \* the exception that ended the run, "none" otherwise
    seen,              \* history: every archive opened so far, with what it held
    probe              \* history: the last direct evaluation of the heading function

vars == <<args, get_heading_func, braidz_files, pc, i, stim, idx, outdir, console, error, seen, probe>>

---------------------------------------------------------------------------
(* Bounds of the model *)

MaxCal == 3        \* rows of a custom calibration table
MaxScreen == 2     \* custom calibration screen positions are 0..MaxScreen
MaxArchives == 2   \* archives found by glob
MaxRows == 2       \* rows of a stimulus table

---------------------------------------------------------------------------
(* Floats and angles *)

Pi == 16

Num(n) == [k |-> "num", v |-> n]
NaN == [k |-> "nan", v |-> 0]
Inf(s) == [k |-> "inf", v |-> s]

Sign(n) == IF n > 0 THEN 1 ELSE IF n < 0 THEN -1 ELSE 0

\* 1000*cos of the lattice direction d*pi/8, d = 0..15
CosTable == <<1000, 924, 707, 383, 0, -383, -707, -924,
              -1000, -924, -707, -383, 0, 383, 707, 924>>

\* np.cos / np.sin of a heading h on the lattice (an even number of units)
np_cos(h) == CosTable[((h \div 2) % 16) + 1]
np_sin(h) == np_cos(h - 8)

\* np.arctan2 of two finite components with a common positive denominator
Atan2Finite(y, x) ==
    IF x = 0 /\ y = 0 THEN 0
    ELSE LET cross(a) == np_cos(a) * y - np_sin(a) * x
             dot(a)   == np_cos(a) * x + np_sin(a) * y
             lattice  == {a \in (1 - Pi)..Pi : a % 2 = 0}
             on       == {a \in lattice : cross(a) = 0 /\ dot(a) > 0}
         IN IF on # {} THEN CHOOSE a \in on : TRUE
            ELSE CHOOSE a \in (1 - Pi)..(Pi - 1) :
                    a % 2 = 1 /\ cross(a - 1) > 0 /\ cross(a + 1) < 0

\* np.arctan2(interp_y, interp_x) of the closure, IEEE special values included
np_arctan2(y, x) ==
    IF y.k = "nan" \/ x.k = "nan" THEN NaN
    ELSE IF y.k = "inf" /\ x.k = "inf"
         THEN Num(y.v * (IF x.v > 0 THEN Pi \div 4 ELSE 3 * (Pi \div 4)))
    ELSE IF y.k = "inf" THEN Num(y.v * (Pi \div 2))
    ELSE IF x.k = "inf" THEN Num(IF x.v > 0 THEN 0 ELSE IF y.v < 0 THEN -Pi ELSE Pi)
    ELSE Num(Atan2Finite(y.v, x.v))


---------------------------------------------------------------------------
(* create_interpolation_function *)

\* SCREEN2HEADING_DATA; the headings are rounded to the lattice (units of
\* pi/16), inside (-Pi, Pi) as the source values are
SCREEN2HEADING_DATA ==
    << [screen |-> 0,   heading |-> 12],
       [screen |-> 80,  heading |-> 6],
       [screen |-> 160, heading |-> 2],
       [screen |-> 240, heading |-> -2],
       [screen |-> 320, heading |-> -4],
       [screen |-> 400, heading |-> -8],
       [screen |-> 480, heading |-> -12],
       [screen |-> 560, heading |-> -14],
       [screen |-> 640, heading |-> 12] >>

\* insertion of a row after the rows whose screen is not larger: a stable sort
RECURSIVE InsertByScreen(_, _)
InsertByScreen(s, e) ==
    IF s = <<>> THEN <<e>>
    ELSE IF Head(s).screen <= e.screen THEN <<Head(s)>> \o InsertByScreen(Tail(s), e)
    ELSE <<e>> \o s

\* interp1d's argsort(x, kind="mergesort") of its points (assume_sorted=False)
RECURSIVE ArgSort(_)
ArgSort(s) ==
    IF s = <<>> THEN <<>>
    ELSE InsertByScreen(ArgSort(SubSeq(s, 1, Len(s) - 1)), s[Len(s)])

\* interp1d(..., kind="linear") refuses fewer than one point, and nothing else
Interp1dRaises(rows) == Len(rows) < 1

\* the closure: the sorted screen values and the two interpolants' ordinates
Closure(rows) ==
    LET s == ArgSort(rows)
    IN [built |-> TRUE,
        x  |-> [j \in 1..Len(s) |-> s[j].screen],
        cx |-> [j \in 1..Len(s) |-> np_cos(s[j].heading)],
        cy |-> [j \in 1..Len(s) |-> np_sin(s[j].heading)]]

NoClosure == [built |-> FALSE, x |-> <<>>, cx |-> <<>>, cy |-> <<>>]

\* np.searchsorted(x, q): the number of points strictly below q
SearchSorted(xs, q) == Cardinality({j \in 1..Len(xs) : xs[j] < q})

\* ndarray.clip(lo, hi): minimum(maximum(v, lo), hi)
Clip(v, lo, hi) ==
    LET m == IF v < lo THEN lo ELSE v
    IN IF m > hi THEN hi ELSE m

\* interp1d._call_linear with fill_value="extrapolate": the value at q of the
\* line through the two points around q (the first or last two outside the
\* range).  A finite result is its numerator over the segment's width
\* x_hi - x_lo, the same positive number for f_x and f_y.
CallLinear(xs, ys, q) ==
    LET n   == Len(xs)
        hi0 == Clip(SearchSorted(xs, q), 1, n - 1)
        lo  == IF hi0 = 0 THEN n ELSE hi0       \* x[hi0 - 1], x[-1] is the last
        hi  == hi0 + 1
        dx  == xs[hi] - xs[lo]
        dy  == ys[hi] - ys[lo]
        t   == q - xs[lo]
    IN IF dx # 0 THEN Num(dy * t + ys[lo] * dx)
       ELSE IF dy = 0 THEN NaN                  \* slope 0/0
       ELSE IF t = 0 THEN NaN                   \* inf * 0
       ELSE Inf(Sign(dy) * Sign(t))

\* get_heading with the arguments of arctan2 exchanged
get_heading_swapped(f, screen_value) ==
    np_arctan2(CallLinear(f.x, f.cx, screen_value), CallLinear(f.x, f.cy, screen_value))

\* get_heading(screen_value) of the closure
get_heading(f, screen_value) ==
    np_arctan2(CallLinear(f.x, f.cy, screen_value), CallLinear(f.x, f.cx, screen_value))

---------------------------------------------------------------------------
(* Inputs *)

\* headings of custom calibration rows: -pi/2, 0, pi/2 and, outside the
\* principal range, 3*pi/2
CalHeadings == {-(Pi \div 2), 0, Pi \div 2, 3 * (Pi \div 2)}

CalRow == [screen : 0..MaxScreen, heading : CalHeadings]

RECURSIVE SeqsUpTo(_, _)
SeqsUpTo(S, n) ==
    IF n = 0 THEN {<<>>}
    ELSE LET shorter == SeqsUpTo(S, n - 1)
         IN shorter \cup {Append(s, e) : s \in {t \in shorter : Len(t) = n - 1}, e \in S}

\* a calibration source: the built-in table, a file pd.read_csv cannot read
\* (missing, no screen/heading column), or a file with these rows
Builtin == [kind |-> "builtin", rows |-> <<>>]
Unreadable == [kind |-> "unreadable", rows |-> <<>>]
FileSource(rows) == [kind |-> "file", rows |-> rows]

\* screen values a heading function is evaluated at
Queries == (-2)..(MaxScreen + 2) \cup {80, 640, 1000, -1000}


\* archive paths: a.braidz, a.b.braidz, b.braidz and sub/a.braidz
Path(dir, base) == [dir |-> dir, base |-> base]
NoPath == Path(<<>>, <<>>)
Paths ==
    { Path(<<>>, <<"a", ".", "braidz">>),
      Path(<<>>, <<"a", ".", "b", ".", "braidz">>),
      Path(<<>>, <<"b", ".", "braidz">>),
      Path(<<"sub">>, <<"a", ".", "braidz">>) }

Range(s) == {s[j] : j \in DOMAIN s}
Distinct(s) == \A j, k \in DOMAIN s : j # k => s[j] # s[k]
Listings == {s \in SeqsUpTo(Paths, MaxArchives) : Distinct(s)}

\* values of the stim_position_screen and heading columns, row after row
ScreenColumn == <<0, 320, 640, 100>>
HeadingColumn == <<8, -4, 1, 16>>
Cyclic(col, j) == col[((j - 1) % Len(col)) + 1]

\* a member pd.read_csv parses: its columns, whether one of them holds floats,
\* and its rows
DataFrame(columns, isfloat, obj, n) ==
    [parsed |-> TRUE, columns |-> columns, float |-> isfloat,
     rows |-> [j \in 1..n |-> [obj_id |-> obj, frame |-> 10 + j,
                               stim_position_screen |-> Cyclic(ScreenColumn, j),
                               heading |-> Cyclic(HeadingColumn, j)]]]
Unparsed == [parsed |-> FALSE, columns |-> {}, float |-> FALSE, rows |-> <<>>]
NoFrame == Unparsed

\* what an archive holds: whether it opens as a zip, and its members by name
Zip(members) == [readable |-> TRUE, members |-> members]
NotAZip == [readable |-> FALSE, members |-> <<>>]
Member(name, df) == [m \in {name} |-> df]

Catalogue ==
    { Zip(Member("stim.csv", DataFrame({"obj_id", "frame", "stim_position_screen"}, FALSE, 1, MaxRows))),
      Zip(Member("opto.csv", DataFrame({"obj_id", "frame", "heading"}, TRUE, 2, MaxRows))),
      Zip(Member("stim.csv", DataFrame({"obj_id", "frame", "heading", "stim_position_screen"}, TRUE, 3, 1))),
      Zip(Member("stim.csv", DataFrame({"obj_id", "frame", "stim_position_screen"}, FALSE, 4, 0))),
      Zip(Member("stim.csv", DataFrame({"obj_id", "frame"}, FALSE, 5, 1))),
      Zip(Member("opto.csv", DataFrame({"frame", "heading"}, TRUE, 6, 1))),
      Zip(Member("stim.csv", Unparsed)),
      Zip(Member("other.csv", DataFrame({"obj_id", "frame", "heading"}, TRUE, 7, 1))),
      NotAZip }

---------------------------------------------------------------------------
(* initialize_csv_writer, write_to_csv *)

Header == [text |-> "obj_id,frame,stim_heading"]

\* a number as iterrows hands it over: upcast to float when the frame has a
\* float column
Cell(v, isfloat) == [v |-> v, float |-> isfloat]

\* open(filename, "w"): the file is created or truncated, and holds the header
initialize_csv_writer(files, filename) ==
    [n \in DOMAIN files \cup {filename} |-> IF n = filename THEN <<Header>> ELSE files[n]]

\* write_to_csv putting its line right below the header instead of at the end
write_to_csv_on_top(files, filename, obj_id, frame, stim_heading) ==
    [files EXCEPT ![filename] =
        <<Head(@), [obj_id |-> obj_id, frame |-> frame, stim_heading |-> stim_heading]>>
        \o Tail(@)]

\* open(filename, "a"): one line more
write_to_csv(files, filename, obj_id, frame, stim_heading) ==
    [files EXCEPT ![filename] =
        Append(@, [obj_id |-> obj_id, frame |-> frame, stim_heading |-> stim_heading])]

---------------------------------------------------------------------------
(* process_braidz_file *)

\* the try block: "stim", "opto", "missing" (neither member) or "error" (an
\* exception of open_filename_or_url, ZipFile or pd.read_csv)
ReadOutcome(content) ==
    IF ~content.readable THEN "error"
    ELSE IF "stim.csv" \in DOMAIN content.members
         THEN IF content.members["stim.csv"].parsed THEN "stim" ELSE "error"
    ELSE IF "opto.csv" \in DOMAIN content.members
         THEN IF content.members["opto.csv"].parsed THEN "opto" ELSE "error"
    ELSE "missing"

\* str.split(".")[0]: what precedes the first dot
RECURSIVE SplitFirst(_)
SplitFirst(name) ==
    IF name = <<>> \/ Head(name) = "." THEN <<>>
    ELSE <<Head(name)>> \o SplitFirst(Tail(name))

\* os.path.basename(braidz_path).split(".")[0] + ".csv"
file_basename(path) == SplitFirst(path.base) \o <<".", "csv">>

\* the exception of one pass of the row loop, "none" if it writes its row
RowError(df) ==
    IF "obj_id" \notin df.columns \/ "frame" \notin df.columns THEN "KeyError"
    ELSE IF "stim_position_screen" \notin df.columns /\ "heading" \notin df.columns
         THEN "KeyError"
    ELSE "none"

\* the value the row loop hands to get_heading_func
RowSource(df, row) ==
    IF "stim_position_screen" \notin df.columns THEN row.heading
    ELSE row.stim_position_screen

\* the stim_heading the row loop writes
RowHeading(f, df, row) == get_heading(f, RowSource(df, row))

Say(msg, path) == [msg |-> msg, about |-> path]


---------------------------------------------------------------------------
(* main, step by step *)

NoProbe == [done |-> FALSE, x |-> 0, h |-> NaN]

\* the state argparse leaves: nothing built, nothing opened, nothing printed,
\* an empty output directory (or none)
Start(a) ==
    /\ args = a
    /\ get_heading_func = NoClosure
    /\ braidz_files = <<>>
    /\ pc = "mkdir"
    /\ i = 1
    /\ stim = NoFrame
    /\ idx = 1
    /\ outdir = << >>
    /\ console = <<>>
    /\ error = "none"
    /\ seen = <<>>
    /\ probe = NoProbe

\* calibration sources of the batch runs: none given, an unreadable file, and
\* files with no row, one row, two rows at one screen position, two good rows
BatchSources ==
    { Builtin, Unreadable,
      FileSource(<<>>),
      FileSource(<<[screen |-> 0, heading |-> 0]>>),
      FileSource(<<[screen |-> 0, heading |-> 0], [screen |-> 0, heading |-> Pi \div 2]>>),
      FileSource(<<[screen |-> 0, heading |-> 0], [screen |-> 2, heading |-> Pi \div 2]>>) }

\* braidz_path: one archive, a directory with its .braidz files (in the order
\* glob meets them), or neither
Inputs ==
    {[kind |-> "file", listing |-> <<p>>] : p \in Paths}
    \cup {[kind |-> "dir", listing |-> l] : l \in Listings}
    \cup {[kind |-> "other", listing |-> <<>>]}

Init ==
    \E src \in BatchSources, inp \in Inputs, rec \in BOOLEAN, ex \in BOOLEAN :
        Start([screen2heading |-> src, braidz_path |-> inp, recursive |-> rec,
               output_exists |-> ex])

\* the runs without --screen2heading_path
InitBuiltin == Init /\ args.screen2heading = Builtin

\* lines 229-232: the output directory is created if it does not exist
MakeOutputDir ==
    /\ pc = "mkdir"
    /\ pc' = "create"
    /\ console' = IF args.output_exists THEN console
                  ELSE Append(console, Say("Created output directory", NoPath))
    /\ UNCHANGED <<args, get_heading_func, braidz_files, i, stim, idx, outdir, error, seen, probe>>

\* the table create_interpolation_function reads (lines 110-119)
CalibrationRows(src) == IF src.kind = "builtin" THEN SCREEN2HEADING_DATA ELSE src.rows

\* the exception create_interpolation_function raises, "none" if it returns
CreateError(src) ==
    IF src.kind = "unreadable" THEN "ReadError"
    ELSE IF Interp1dRaises(CalibrationRows(src)) THEN "ValueError"
    ELSE "none"

\* line 235: get_heading_func = create_interpolation_function(...); an exception
\* ends the run
CreateInterpolationFunction ==
    /\ pc = "create"
    /\ LET e == CreateError(args.screen2heading)
       IN IF e # "none"
          THEN /\ pc' = "crashed"
               /\ error' = e
               /\ UNCHANGED get_heading_func
          ELSE /\ pc' = "dispatch"
               /\ get_heading_func' = Closure(CalibrationRows(args.screen2heading))
               /\ UNCHANGED error
    /\ UNCHANGED <<args, braidz_files, i, stim, idx, outdir, console, seen, probe>>

\* glob.glob(pattern, recursive=args.recursive): without --recursive only the
\* files of the directory itself
Glob(listing, recursive) ==
    SelectSeq(listing, LAMBDA p : recursive \/ p.dir = <<>>)

\* lines 238-256: one file, a directory, or neither
Dispatch ==
    /\ pc = "dispatch"
    /\ LET inp == args.braidz_path
           found == IF inp.kind = "file" THEN inp.listing
                    ELSE IF inp.kind = "dir" THEN Glob(inp.listing, args.recursive)
                    ELSE <<>>
       IN /\ braidz_files' = found
          /\ IF inp.kind = "other"
             THEN /\ pc' = "returned"
                  /\ console' = Append(console, Say("Error: not a valid braidz file or directory", NoPath))
             ELSE IF found = <<>>
             THEN /\ pc' = "returned"
                  /\ console' = Append(console, Say("No braidz files found", NoPath))
             ELSE /\ pc' = "read"
                  /\ UNCHANGED console
    /\ i' = 1
    /\ UNCHANGED <<args, get_heading_func, stim, idx, outdir, error, seen, probe>>

\* where main goes when process_braidz_file returns
AfterArchive == IF i < Len(braidz_files) THEN "read" ELSE "complete"

\* the skip without the except clause: the exception leaves process_braidz_file
SkipArchiveUncaught(path, outcome) ==
    /\ IF outcome = "missing"
       THEN /\ console' = Append(console, Say("No stim or opto data found", path))
            /\ pc' = AfterArchive
            /\ UNCHANGED error
       ELSE /\ pc' = "crashed"
            /\ error' = "Exception"
            /\ UNCHANGED console
    /\ i' = i + 1
    /\ stim' = NoFrame
    /\ UNCHANGED outdir

\* lines 163-176 when the archive cannot be read or holds neither member: the
\* skip is printed and process_braidz_file returns False
SkipArchive(path, outcome) ==
    /\ console' = Append(console,
                    Say(IF outcome = "missing" THEN "No stim or opto data found"
                        ELSE "Error reading", path))
    /\ pc' = AfterArchive
    /\ i' = i + 1
    /\ stim' = NoFrame
    /\ UNCHANGED <<outdir, error>>

\* lines 163-176: the try block of process_braidz_file on the next archive
ReadArchive ==
    /\ pc = "read"
    /\ \E content \in Catalogue :
         LET path == braidz_files[i]
             outcome == ReadOutcome(content)
         IN /\ seen' = Append(seen, [path |-> path, content |-> content])
            /\ IF outcome \in {"missing", "error"}
               THEN SkipArchive(path, outcome)
               ELSE /\ stim' = content.members[IF outcome = "stim" THEN "stim.csv" ELSE "opto.csv"]
                    /\ pc' = "init"
                    /\ UNCHANGED <<i, outdir, console, error>>
    /\ UNCHANGED <<args, get_heading_func, braidz_files, idx, probe>>

\* lines 178-183: the output file is named and initialized
InitCsv ==
    /\ pc = "init"
    /\ outdir' = initialize_csv_writer(outdir, file_basename(braidz_files[i]))
    /\ idx' = 1
    /\ pc' = "rows"
    /\ UNCHANGED <<args, get_heading_func, braidz_files, i, stim, console, error, seen, probe>>

\* lines 186-199: one pass of the row loop, or its end
ProcessRow ==
    /\ pc = "rows"
    /\ IF idx > Len(stim.rows)
       THEN /\ pc' = "report"
            /\ UNCHANGED <<outdir, idx, error>>
       ELSE IF RowError(stim) # "none"
       THEN /\ pc' = "crashed"
            /\ error' = RowError(stim)
            /\ UNCHANGED <<outdir, idx>>
       ELSE LET row == stim.rows[idx]
            IN /\ outdir' = write_to_csv(outdir, file_basename(braidz_files[i]),
                                Cell(row.obj_id, stim.float), Cell(row.frame, stim.float),
                                RowHeading(get_heading_func, stim, row))
               /\ idx' = idx + 1
               /\ UNCHANGED <<pc, error>>
    /\ UNCHANGED <<args, get_heading_func, braidz_files, i, stim, console, seen, probe>>

\* lines 201-202: the archive is reported and process_braidz_file returns True
FinishArchive ==
    /\ pc = "report"
    /\ console' = Append(console, Say("Interpolated", braidz_files[i]))
    /\ pc' = AfterArchive
    /\ i' = i + 1
    /\ stim' = NoFrame
    /\ UNCHANGED <<args, get_heading_func, braidz_files, idx, outdir, error, seen, probe>>

\* line 258
Complete ==
    /\ pc = "complete"
    /\ console' = Append(console, Say("Processing complete!", NoPath))
    /\ pc' = "done"
    /\ UNCHANGED <<args, get_heading_func, braidz_files, i, stim, idx, outdir, error, seen, probe>>

Next ==
    \/ MakeOutputDir
    \/ CreateInterpolationFunction
    \/ Dispatch
    \/ ReadArchive
    \/ InitCsv
    \/ ProcessRow
    \/ FinishArchive
    \/ Complete

Spec == Init /\ [][Next]_vars

SpecBuiltin == InitBuiltin /\ [][Next]_vars

---------------------------------------------------------------------------
(* The heading function on its own: any calibration table, any query *)

InitHeading ==
    \E src \in {Builtin} \cup {FileSource(r) : r \in SeqsUpTo(CalRow, MaxCal)} :
        /\ Start([screen2heading |-> src, braidz_path |-> [kind |-> "other", listing |-> <<>>],
                  recursive |-> FALSE, output_exists |-> TRUE])

\* get_heading_func(q) for a query q
Evaluate ==
    /\ pc = "dispatch"
    /\ ~probe.done
    /\ \E q \in Queries : probe' = [done |-> TRUE, x |-> q, h |-> get_heading(get_heading_func, q)]
    /\ UNCHANGED <<args, get_heading_func, braidz_files, pc, i, stim, idx, outdir, console, error, seen>>

NextHeading ==
    \/ MakeOutputDir
    \/ CreateInterpolationFunction
    \/ Evaluate

SpecHeading == InitHeading /\ [][NextHeading]_vars


---------------------------------------------------------------------------
(* Claims *)

Last(s) == s[Len(s)]
CurrentFile == outdir[file_basename(braidz_files[i])]
Skipped(content) == ReadOutcome(content) \in {"missing", "error"}
\* the frame process_braidz_file reads from an archive that is not skipped
FrameOf(content) ==
    content.members[IF ReadOutcome(content) = "stim" THEN "stim.csv" ELSE "opto.csv"]

\* C1: while and after the rows of a table with a heading column and no
\* stim_position_screen column are written, every stim_heading in the output
\* file is the heading of its row, unchanged.
C1_HeadingWrittenUnchanged ==
    (pc \in {"rows", "report"} /\ "heading" \in stim.columns
        /\ "stim_position_screen" \notin stim.columns)
    => \A j \in 1..(Len(CurrentFile) - 1) :
          CurrentFile[j + 1].stim_heading = Num(stim.rows[j].heading)

\* C2: no archive whose rows lack the source columns, obj_id or frame ends the
\* run: no exception leaves process_braidz_file, and a run that has ended has
\* opened every archive of the batch.
C2_RowFailureIsCaught ==
    /\ \A k \in DOMAIN seen :
          (~Skipped(seen[k].content) /\ RowError(FrameOf(seen[k].content)) # "none")
          => error = "none"
    /\ (pc \in {"done", "crashed"} /\ braidz_files # <<>>) => Len(seen) = Len(braidz_files)

\* C3: the step that finds an archive unreadable or without stim.csv and
\* opto.csv leaves every output file as it was and creates none, prints the
\* skip for that archive, raises nothing, and hands the loop to the next
\* archive (or to the end of the batch after the last one).
C3_SkipWritesNothingAndGoesOn ==
    [][(pc = "read" /\ seen' # seen /\ Skipped(Last(seen').content))
        => /\ outdir' = outdir
           /\ error' = "none"
           /\ Len(console') = Len(console) + 1
           /\ Last(console').about = braidz_files[i]
           /\ Last(console').msg \in {"No stim or opto data found", "Error reading"}
           /\ i' = i + 1
           /\ pc' = IF i < Len(braidz_files) THEN "read" ELSE "complete"]_vars

\* C3 witness: an archive was skipped, left no file, and a later archive of the
\* batch was interpolated
C3_SkippedThenProcessed ==
    \E j, k \in DOMAIN seen :
        /\ j < k
        /\ ReadOutcome(seen[j].content) = "error"
        /\ file_basename(seen[j].path) \notin DOMAIN outdir
        /\ Say("Error reading", seen[j].path) \in Range(console)
        /\ Say("Interpolated", seen[k].path) \in Range(console)

\* the file process_braidz_file writes for a frame
ExpectedFile(f, df) ==
    <<Header>> \o [j \in 1..Len(df.rows) |->
        [obj_id |-> Cell(df.rows[j].obj_id, df.float),
         frame |-> Cell(df.rows[j].frame, df.float),
         stim_heading |-> RowHeading(f, df, df.rows[j])]]

\* C4: when the batch is complete, every archive that was interpolated has its
\* output file, and the file holds the header and that archive's rows.
C4_OutputsNotMixed ==
    pc = "done" =>
        \A k \in DOMAIN seen :
            ~Skipped(seen[k].content) =>
                /\ file_basename(seen[k].path) \in DOMAIN outdir
                /\ outdir[file_basename(seen[k].path)]
                      = ExpectedFile(get_heading_func, FrameOf(seen[k].content))

\* C5: when the row loop of an archive has ended, its output file is the
\* header followed by one line per row of the table, the j-th line with the
\* obj_id and frame of the j-th row.
C5_OneLinePerRowInOrder ==
    pc = "report" =>
        /\ Len(CurrentFile) = Len(stim.rows) + 1
        /\ CurrentFile[1] = Header
        /\ \A j \in 1..Len(stim.rows) :
              /\ CurrentFile[j + 1].obj_id.v = stim.rows[j].obj_id
              /\ CurrentFile[j + 1].frame.v = stim.rows[j].frame

\* C5 witness: a table of at least two rows has been written out
C5_TwoRowsWritten ==
    /\ pc = "report"
    /\ Len(stim.rows) >= 2
    /\ Len(CurrentFile) = 3
    /\ CurrentFile[2].frame.v < CurrentFile[3].frame.v

\* C6: a run whose calibration file has fewer than two rows never gets past
\* create_interpolation_function: no archive is opened, no file written.
C6_ShortCalibrationFailsAtLoad ==
    (args.screen2heading.kind = "file" /\ Len(args.screen2heading.rows) < 2)
    => /\ pc \in {"mkdir", "create", "crashed"}
       /\ seen = <<>>
       /\ outdir = << >>

HasDuplicateScreen(rows) ==
    \E j, k \in DOMAIN rows : j # k /\ rows[j].screen = rows[k].screen

\* C7: no heading function is built from a calibration table in which two
\* rows share a screen position.
C7_DuplicateScreenRejected ==
    HasDuplicateScreen(CalibrationRows(args.screen2heading)) => ~get_heading_func.built

\* the angle h brought into (-Pi, Pi]
Principal(h) == ((h + Pi - 1) % (2 * Pi)) - Pi + 1

\* C8, as stated: the heading function of a table of at least two rows,
\* evaluated at the screen position of a row, returns that row's heading
\* (read on the rows whose position no other row shares, where the question
\* of C7 does not arise).
C8_ReturnsEntryHeading ==
    LET rows == CalibrationRows(args.screen2heading)
    IN (probe.done /\ Len(rows) >= 2)
       => \A j \in DOMAIN rows :
             (/\ rows[j].screen = probe.x
              /\ \A k \in DOMAIN rows : k # j => rows[k].screen # probe.x)
             => probe.h = Num(rows[j].heading)

\* C8, amended: the heading function of a table of at least two rows, evaluated
\* at the screen position of a row that no other row shares, returns that
\* row's heading brought into (-Pi, Pi]; and for the built-in table the value
\* at 0 is the value at 640.
C8_ReturnsEntryHeadingWrapped ==
    LET rows == CalibrationRows(args.screen2heading)
    IN (probe.done /\ Len(rows) >= 2)
       => /\ \A j \in DOMAIN rows :
                (/\ rows[j].screen = probe.x
                 /\ \A k \in DOMAIN rows : k # j => rows[k].screen # probe.x)
                => probe.h = Num(Principal(rows[j].heading))
          /\ (args.screen2heading.kind = "builtin" /\ probe.x = 0)
                => probe.h = get_heading(get_heading_func, 640)

\* C8 witness: the function was evaluated at the position of a row whose
\* heading lies outside (-Pi, Pi], in a table that also has a duplicated
\* position, and returned the heading less a full turn
C8_WrappedEntryEvaluated ==
    LET rows == CalibrationRows(args.screen2heading)
    IN /\ probe.done
       /\ HasDuplicateScreen(rows)
       /\ \E j \in DOMAIN rows :
            /\ rows[j].screen = probe.x
            /\ \A k \in DOMAIN rows : k # j => rows[k].screen # probe.x
            /\ rows[j].heading > Pi
            /\ probe.h = Num(rows[j].heading - 2 * Pi)

\* C9: every value the heading function returns is a number in (-Pi, Pi].
C9_HeadingInRange ==
    probe.done => (probe.h.k = "num" /\ -Pi < probe.h.v /\ probe.h.v <= Pi)

\* os.path.splitext(name)[0]: the name without its last dot and what follows
RECURSIVE WithoutExtension(_)
WithoutExtension(name) ==
    IF name = <<>> THEN <<>>
    ELSE IF name[Len(name)] = "." THEN SubSeq(name, 1, Len(name) - 1)
    ELSE WithoutExtension(SubSeq(name, 1, Len(name) - 1))

\* C10: once process_braidz_file has initialized its output, the output
\* directory holds a file named after the archive's basename without its final
\* extension, followed by .csv.
C10_NamedAfterStem ==
    pc \in {"rows", "report"}
    => (WithoutExtension(braidz_files[i].base) \o <<".", "csv">>) \in DOMAIN outdir

===========================================================================
